---- MODULE Spec2Model ----
(***************************************************************************)
(* Model of test-crawler/global_settings.py: a Python module whose body    *)
(* binds five module-level names, one of them from the process             *)
(* environment.  The model covers the execution of the module body,        *)
(* statement by statement, under the import protocol of the Python         *)
(* runtime (sys.modules cache and per-module import lock), the consumers   *)
(* that import the module and read its attributes, the process             *)
(* environment, and the launch of fresh processes.                         *)
(*                                                                         *)
(* Python strings that are data are sequences of one-character strings;    *)
(* identifiers (attribute names, mapping keys, environment variable        *)
(* names) are TLA+ strings.                                                *)
(***************************************************************************)
EXTENDS Integers, Sequences, FiniteSets, TLC

(* ------------------------------ bounds -------------------------------- *)

\* Number of threads of one process that import and read the module.
NumThreads == 2

\* Number of processes launched one after the other.
MaxProcesses == 2

\* Number of lines the external crawler appends to the output log.
MaxLogLines == 1

Threads == 1..NumThreads

NoThread == 0

(* --------------------------- Python values ---------------------------- *)

PyStr(s) == [type |-> "str", val |-> s]

PyNone == [type |-> "NoneType", val |-> <<>>]

\* A dict literal, as the sequence of its <<key, value>> items.
PyDict(items) == [type |-> "dict", val |-> items]

PyModule == [type |-> "module", val |-> <<>>]

\* What reading a name the module has not bound yet gives.
AttributeError == [type |-> "AttributeError", val |-> <<>>]

\* What a failed mapping lookup raises.
KeyError == [type |-> "KeyError", val |-> <<>>]

IsException(v) == v.type \in {"AttributeError", "KeyError"}

(* ------------------------- the process environment -------------------- *)

\* The values GITHUB_TOKEN may hold when set: the empty string, a token,
\* and a string with surrounding whitespace.
TokenValues ==
    { <<>>,
      <<"g", "h", "p", "_", "e", "x", "a", "m", "p", "l", "e", "1", "2", "3">>,
      <<" ", "t", " ">> }

\* An environment is a mapping whose domain holds the variables that are set.
EnvWith(v) == [k \in {"GITHUB_TOKEN"} |-> v]

EnvEmpty == [k \in {} |-> <<>>]

Environments == {EnvEmpty} \cup {EnvWith(v) : v \in TokenValues}

\* Variant: the lookup falls back to the empty string, not to the default.
GetenvDefaultEmpty(env, key, default) ==
    IF key \in DOMAIN env THEN PyStr(env[key]) ELSE PyStr(<<>>)

\* Variant: os.environ[key], which raises KeyError for a variable not set.
GetenvRaising(env, key, default) ==
    IF key \in DOMAIN env THEN PyStr(env[key]) ELSE KeyError

(* os.getenv(key, default): the value of the variable if it is set, the
   default otherwise; it never raises for a string key. *)
Getenv(env, key, default) ==
    IF key \in DOMAIN env THEN PyStr(env[key]) ELSE default

(* ------------------------- the module's literals ---------------------- *)

\* Variant: the owner segment is missing.
REPO_NoOwner == <<"/", "d", "a", "p", "r">>

REPO == <<"d", "a", "p", "r", "/", "d", "a", "p", "r">>

WORKFLOW_NAME ==
    <<"d", "a", "p", "r", "-", "t", "e", "s", "t", ".", "y", "m", "l">>

\* Variant: a page size above what the API allows.
GITHUB_API_PARAMETER_1000 == << <<"per_page", <<"1", "0", "0", "0">> >> >>

GITHUB_API_PARAMETER == << <<"per_page", <<"1", "0", "0">> >> >>

OUTPUT_TARGET == <<"l", "o", "g", ".", "t", "x", "t">>

\* The names the module body binds that consumers read.
Fields ==
    {"REPO", "WORKFLOW_NAME", "ACCESS_TOKEN", "GITHUB_API_PARAMETER",
     "OUTPUT_TARGET"}

(* ------------------------------- state -------------------------------- *)

VARIABLES
    environ,     \* os.environ of the running process (its environment)
    startEnv,    \* history: os.environ as it was at process start
    globals,     \* the module's namespace: name -> Python value
    sysModules,  \* "absent" | "initializing" | "ready"
    lock,        \* the thread holding the module's import lock, or NoThread
    pc,          \* each thread's position
    loadError,   \* the exception the module body raised, or PyNone
    ioLog,       \* the external interactions the module body performed
    files,       \* the file system: path -> number of lines
    observed,    \* field -> the values consumers' reads of it returned
    prevRun,     \* history: the previous process's namespace and environment
    procCount    \* number of processes launched so far

vars ==
    <<environ, startEnv, globals, sysModules, lock, pc, loadError,
      ioLog, files, observed, prevRun, procCount>>

NoGlobals == [n \in {} |-> PyNone]

NoFiles == [p \in {} |-> 0]

NoRun == [ran |-> FALSE, globals |-> NoGlobals, env |-> EnvEmpty]

\* Binding a name in the module's namespace.
Bind(g, name, value) ==
    [n \in DOMAIN g \cup {name} |-> IF n = name THEN value ELSE g[n]]

\* module.name: the bound value, AttributeError if the name is not bound.
Getattr(g, name) == IF name \in DOMAIN g THEN g[name] ELSE AttributeError

\* The state a freshly launched process starts in, given its environment.
Init ==
    /\ environ \in Environments
    /\ startEnv = environ
    /\ globals = NoGlobals
    /\ sysModules = "absent"
    /\ lock = NoThread
    /\ pc = [t \in Threads |-> "idle"]
    /\ loadError = PyNone
    /\ ioLog = <<>>
    /\ files = NoFiles
    /\ observed = [f \in Fields |-> {}]
    /\ prevRun = NoRun
    /\ procCount = 1

(* ------------------ import global_settings (a thread) ----------------- *)

(* Variant: a module found in sys.modules is returned even while it is still
   initializing. *)
ImportStartNoInitCheck(t) ==
    /\ pc[t] = "idle"
    /\ pc' = [pc EXCEPT ![t] = IF sysModules # "absent" THEN "imported"
                                 ELSE "acquire"]
    /\ UNCHANGED <<environ, startEnv, globals, sysModules, lock,
                   loadError, ioLog, files, observed, prevRun, procCount>>

(* A consumer thread reaches its `import global_settings`.  A module that is
   in sys.modules and no longer initializing is returned at once; otherwise
   the thread goes for the module's import lock. *)
ImportStart(t) ==
    /\ pc[t] = "idle"
    /\ pc' = [pc EXCEPT ![t] = IF sysModules = "ready" THEN "imported"
                                 ELSE "acquire"]
    /\ UNCHANGED <<environ, startEnv, globals, sysModules, lock,
                   loadError, ioLog, files, observed, prevRun, procCount>>

(* With the import lock held the thread looks the module up again: if it is
   still missing the thread becomes its loader, enters it in sys.modules as
   initializing and starts the module body with the lock held; if another
   thread has loaded it meanwhile, the lock is released and the import
   returns. *)
FindAndLoad(t) ==
    /\ pc[t] = "acquire"
    /\ lock = NoThread
    /\ IF sysModules = "absent"
       THEN /\ lock' = t
            /\ sysModules' = "initializing"
            /\ globals' = NoGlobals
            /\ pc' = [pc EXCEPT ![t] = "l6"]
       ELSE /\ pc' = [pc EXCEPT ![t] = "imported"]
            /\ UNCHANGED <<lock, sysModules, globals>>
    /\ UNCHANGED <<environ, startEnv, loadError, ioLog, files,
                   observed, prevRun, procCount>>

(* --------------------------- the module body -------------------------- *)

\* line 6: import os
ExecImportOs(t) ==
    /\ pc[t] = "l6"
    /\ globals' = Bind(globals, "os", PyModule)
    /\ pc' = [pc EXCEPT ![t] = "l9"]
    /\ UNCHANGED <<environ, startEnv, sysModules, lock, loadError,
                   ioLog, files, observed, prevRun, procCount>>

\* line 9: REPO = "dapr/dapr"
ExecRepo(t) ==
    /\ pc[t] = "l9"
    /\ globals' = Bind(globals, "REPO", PyStr(REPO))
    /\ pc' = [pc EXCEPT ![t] = "l12"]
    /\ UNCHANGED <<environ, startEnv, sysModules, lock, loadError,
                   ioLog, files, observed, prevRun, procCount>>

\* Variant: WORKFLOW_NAME = os.getenv("GITHUB_TOKEN", "dapr-test.yml")
ExecWorkflowNameFromEnv(t) ==
    /\ pc[t] = "l12"
    /\ globals' = Bind(globals, "WORKFLOW_NAME",
                       Getenv(environ, "GITHUB_TOKEN", PyStr(WORKFLOW_NAME)))
    /\ pc' = [pc EXCEPT ![t] = "l16"]
    /\ UNCHANGED <<environ, startEnv, sysModules, lock, loadError,
                   ioLog, files, observed, prevRun, procCount>>

\* line 12: WORKFLOW_NAME = "dapr-test.yml"
ExecWorkflowName(t) ==
    /\ pc[t] = "l12"
    /\ globals' = Bind(globals, "WORKFLOW_NAME", PyStr(WORKFLOW_NAME))
    /\ pc' = [pc EXCEPT ![t] = "l16"]
    /\ UNCHANGED <<environ, startEnv, sysModules, lock, loadError,
                   ioLog, files, observed, prevRun, procCount>>

(* Variant:
   ACCESS_TOKEN = os.getenv("GITHUB_TOKEN") if os.getenv("GITHUB_TOKEN") else None
   which looks the variable up a second time when the first lookup gave a
   non-empty string, and binds None otherwise. *)
ExecAccessTokenChecked(t) ==
    /\ pc[t] = "l16"
    /\ LET v == Getenv(environ, "GITHUB_TOKEN", PyNone)
           truthy == v.type = "str" /\ v.val # <<>>
       IN  /\ ioLog' = IF truthy
                       THEN ioLog \o << <<"getenv", "GITHUB_TOKEN">>,
                                        <<"getenv", "GITHUB_TOKEN">> >>
                       ELSE Append(ioLog, <<"getenv", "GITHUB_TOKEN">>)
           /\ globals' = Bind(globals, "ACCESS_TOKEN",
                              IF truthy THEN v ELSE PyNone)
    /\ pc' = [pc EXCEPT ![t] = "l19"]
    /\ UNCHANGED <<environ, startEnv, loadError, sysModules, lock, files,
                   observed, prevRun, procCount>>

(* line 16: ACCESS_TOKEN = os.getenv("GITHUB_TOKEN").  The lookup is the
   module's one external interaction.  A statement that raises ends the
   module body: the import system takes the module out of sys.modules,
   releases the lock and the exception leaves the import statement. *)
ExecAccessToken(t) ==
    /\ pc[t] = "l16"
    /\ ioLog' = Append(ioLog, <<"getenv", "GITHUB_TOKEN">>)
    /\ LET v == Getenv(environ, "GITHUB_TOKEN", PyNone)
       IN  IF IsException(v)
           THEN /\ loadError' = v
                /\ sysModules' = "absent"
                /\ lock' = NoThread
                /\ pc' = [pc EXCEPT ![t] = "failed"]
                /\ UNCHANGED globals
           ELSE /\ globals' = Bind(globals, "ACCESS_TOKEN", v)
                /\ pc' = [pc EXCEPT ![t] = "l19"]
                /\ UNCHANGED <<loadError, sysModules, lock>>
    /\ UNCHANGED <<environ, startEnv, files, observed, prevRun,
                   procCount>>

\* line 19: GITHUB_API_PARAMETER = {"per_page": "100"}
ExecApiParameter(t) ==
    /\ pc[t] = "l19"
    /\ globals' = Bind(globals, "GITHUB_API_PARAMETER",
                       PyDict(GITHUB_API_PARAMETER))
    /\ pc' = [pc EXCEPT ![t] = "l22"]
    /\ UNCHANGED <<environ, startEnv, sysModules, lock, loadError,
                   ioLog, files, observed, prevRun, procCount>>

\* Variant: the statement also creates (truncates) the file it names.
ExecOutputTargetOpen(t) ==
    /\ pc[t] = "l22"
    /\ globals' = Bind(globals, "OUTPUT_TARGET", PyStr(OUTPUT_TARGET))
    /\ files' = [p \in DOMAIN files \cup {OUTPUT_TARGET} |->
                   IF p = OUTPUT_TARGET THEN 0 ELSE files[p]]
    /\ ioLog' = Append(ioLog, <<"open", "log.txt">>)
    /\ pc' = [pc EXCEPT ![t] = "finish"]
    /\ UNCHANGED <<environ, startEnv, sysModules, lock, loadError,
                   observed, prevRun, procCount>>

\* line 22: OUTPUT_TARGET = "log.txt"
ExecOutputTarget(t) ==
    /\ pc[t] = "l22"
    /\ globals' = Bind(globals, "OUTPUT_TARGET", PyStr(OUTPUT_TARGET))
    /\ pc' = [pc EXCEPT ![t] = "finish"]
    /\ UNCHANGED <<environ, startEnv, sysModules, lock, loadError,
                   ioLog, files, observed, prevRun, procCount>>

(* End of the module body: the module stops being marked as initializing,
   the import lock is released and the loader's import statement returns. *)
FinishLoad(t) ==
    /\ pc[t] = "finish"
    /\ sysModules' = "ready"
    /\ lock' = NoThread
    /\ pc' = [pc EXCEPT ![t] = "imported"]
    /\ UNCHANGED <<environ, startEnv, globals, loadError, ioLog,
                   files, observed, prevRun, procCount>>

(* ------------------------------ consumers ----------------------------- *)

(* Variant: the access token is looked up in the environment at each read
   instead of being the value bound when the module was loaded. *)
ReadLazy(t, f) ==
    /\ pc[t] = "imported"
    /\ observed' = [observed EXCEPT ![f] = @ \cup
                      {IF f = "ACCESS_TOKEN"
                       THEN Getenv(environ, "GITHUB_TOKEN", PyNone)
                       ELSE Getattr(globals, f)}]
    /\ UNCHANGED <<environ, startEnv, globals, sysModules, lock, pc,
                   loadError, ioLog, files, prevRun, procCount>>

\* A consumer whose import has returned reads global_settings.<f>.
Read(t, f) ==
    /\ pc[t] = "imported"
    /\ observed' = [observed EXCEPT ![f] = @ \cup {Getattr(globals, f)}]
    /\ UNCHANGED <<environ, startEnv, globals, sysModules, lock, pc,
                   loadError, ioLog, files, prevRun, procCount>>

(* Code of the running process sets, changes or deletes GITHUB_TOKEN in
   os.environ after its import has returned. *)
SetEnviron(t, e) ==
    /\ pc[t] = "imported"
    /\ e # environ
    /\ environ' = e
    /\ UNCHANGED <<startEnv, globals, sysModules, lock, pc,
                   loadError, ioLog, files, observed, prevRun, procCount>>

\* The crawler appends a line to the file the output target names.
AppendLog(t) ==
    /\ pc[t] = "imported"
    /\ Getattr(globals, "OUTPUT_TARGET").type = "str"
    /\ LET path == Getattr(globals, "OUTPUT_TARGET").val
           n == IF path \in DOMAIN files THEN files[path] ELSE 0
       IN  /\ n < MaxLogLines
           /\ files' = [p \in DOMAIN files \cup {path} |->
                          IF p = path THEN n + 1 ELSE files[p]]
    /\ UNCHANGED <<environ, startEnv, globals, sysModules, lock, pc,
                   loadError, ioLog, observed, prevRun, procCount>>

(* --------------------------- the outside world ------------------------ *)

(* The process ends after the module was loaded and a fresh process is
   launched with the environment as it then is: a new interpreter, a new
   os.environ, nothing imported.  Files persist. *)
Restart ==
    /\ procCount < MaxProcesses
    /\ sysModules = "ready"
    /\ \A t \in Threads : pc[t] \in {"idle", "imported"}
    /\ prevRun' = [ran |-> TRUE, globals |-> globals, env |-> startEnv]
    /\ startEnv' = environ
    /\ globals' = NoGlobals
    /\ sysModules' = "absent"
    /\ lock' = NoThread
    /\ pc' = [t \in Threads |-> "idle"]
    /\ loadError' = PyNone
    /\ ioLog' = <<>>
    /\ observed' = [f \in Fields |-> {}]
    /\ procCount' = procCount + 1
    /\ UNCHANGED <<environ, files>>

Next ==
    \/ \E t \in Threads : ImportStart(t)
    \/ \E t \in Threads : FindAndLoad(t)
    \/ \E t \in Threads : ExecImportOs(t)
    \/ \E t \in Threads : ExecRepo(t)
    \/ \E t \in Threads : ExecWorkflowName(t)
    \/ \E t \in Threads : ExecAccessToken(t)
    \/ \E t \in Threads : ExecApiParameter(t)
    \/ \E t \in Threads : ExecOutputTarget(t)
    \/ \E t \in Threads : FinishLoad(t)
    \/ \E t \in Threads, f \in Fields : Read(t, f)
    \/ \E t \in Threads, e \in Environments : SetEnviron(t, e)
    \/ \E t \in Threads : AppendLog(t)
    \/ Restart

Spec == Init /\ [][Next]_vars

(* Threads run: a thread that can take a step of its import (the lookup,
   the lock, a statement of the module body, the end of the load) takes it
   eventually.  Consumers and the launch of processes are under no
   obligation. *)
ImportStep(t) ==
    \/ ImportStart(t)
    \/ FindAndLoad(t)
    \/ ExecImportOs(t)
    \/ ExecRepo(t)
    \/ ExecWorkflowName(t)
    \/ ExecAccessToken(t)
    \/ ExecApiParameter(t)
    \/ ExecOutputTarget(t)
    \/ FinishLoad(t)

FairSpec == Spec /\ \A t \in Threads : WF_vars(ImportStep(t))

(* ----------------------- vocabulary of the claims --------------------- *)

\* The module has been loaded: its body ran to the end.
Initialized == sysModules = "ready"

\* The access token an environment stands for: its value, None if unset.
ExpectedToken(env) ==
    IF "GITHUB_TOKEN" \in DOMAIN env
    THEN [type |-> "str", val |-> env["GITHUB_TOKEN"]]
    ELSE [type |-> "NoneType", val |-> <<>>]

EmptyString == [type |-> "str", val |-> <<>>]

CountChar(s, c) == Cardinality({i \in 1..Len(s) : s[i] = c})

\* "<owner>/<name>": exactly one "/", something before it and after it.
IsOwnerSlashName(s) ==
    /\ CountChar(s, "/") = 1
    /\ LET i == CHOOSE j \in 1..Len(s) : s[j] = "/"
       IN  /\ Len(SubSeq(s, 1, i - 1)) > 0
           /\ Len(SubSeq(s, i + 1, Len(s))) > 0

Digits == {"0", "1", "2", "3", "4", "5", "6", "7", "8", "9"}

DigitValue(c) ==
    CASE c = "0" -> 0 [] c = "1" -> 1 [] c = "2" -> 2 [] c = "3" -> 3
      [] c = "4" -> 4 [] c = "5" -> 5 [] c = "6" -> 6 [] c = "7" -> 7
      [] c = "8" -> 8 [] c = "9" -> 9

IsDecimal(s) == Len(s) > 0 /\ \A i \in 1..Len(s) : s[i] \in Digits

RECURSIVE ParseInt(_)
ParseInt(s) ==
    IF Len(s) = 0 THEN 0
    ELSE 10 * ParseInt(SubSeq(s, 1, Len(s) - 1)) + DigitValue(s[Len(s)])

\* The values a mapping's items give a key, in the order of the items.
ValuesOf(items, key) ==
    {items[i][2] : i \in {j \in 1..Len(items) : items[j][1] = key}}

\* A request-parameter mapping whose page size is a string for 1..100.
HasValidPageSize(v) ==
    /\ v.type = "dict"
    /\ ValuesOf(v.val, "per_page") # {}
    /\ \A n \in ValuesOf(v.val, "per_page") :
          IsDecimal(n) /\ ParseInt(n) >= 1 /\ ParseInt(n) <= 100

BodyPositions == {"l6", "l9", "l12", "l16", "l19", "l22", "finish"}

LiteralFields == Fields \ {"ACCESS_TOKEN"}

(* ------------------------------- claims ------------------------------- *)

(* C1: once the module is loaded, the access token it exposes (the bound
   name, and every value a read of it returned) is the value GITHUB_TOKEN
   had in the environment the process started with, unchanged, and None when
   the variable was not set; an unset variable is never exposed as the empty
   string. *)
C1_TokenIsEnvironmentValue ==
    /\ Initialized =>
          /\ Getattr(globals, "ACCESS_TOKEN") = ExpectedToken(startEnv)
          /\ "GITHUB_TOKEN" \notin DOMAIN startEnv =>
                Getattr(globals, "ACCESS_TOKEN") # EmptyString
    /\ \A v \in observed["ACCESS_TOKEN"] :
          /\ v = ExpectedToken(startEnv)
          /\ "GITHUB_TOKEN" \notin DOMAIN startEnv => v # EmptyString

(* C1 witness: a process started without the variable was followed by one
   started with a value that has surrounding whitespace, and the token of
   the second was read. *)
C1_Witness ==
    /\ Initialized
    /\ prevRun.ran
    /\ "GITHUB_TOKEN" \notin DOMAIN prevRun.env
    /\ Getattr(prevRun.globals, "ACCESS_TOKEN").type = "NoneType"
    /\ "GITHUB_TOKEN" \in DOMAIN startEnv
    /\ startEnv["GITHUB_TOKEN"] = <<" ", "t", " ">>
    /\ observed["ACCESS_TOKEN"] # {}

(* C2: within one process every read of a field returns what the first read
   of that field returned: the reads of a field have returned at most one
   value, whatever consumers did in between. *)
C2_ReadsNeverChange ==
    \A f \in Fields : Cardinality(observed[f]) <= 1

(* C2 witness: every field has been read, after the environment was changed
   and the crawler wrote its log. *)
C2_Witness ==
    /\ \A f \in Fields : observed[f] # {}
    /\ environ # startEnv
    /\ files # NoFiles

(* C3: the module looks GITHUB_TOKEN up exactly once, when it is loaded: the
   lookup has happened at most once in a process and exactly once when the
   module is loaded, and every read of the token, also after the variable
   was changed in os.environ, returns the value of the environment the
   process started with; the process launched afterwards exposes the changed
   value. *)
C3_EnvironmentReadOnceAtLoad ==
    /\ Len(ioLog) <= 1
    /\ Initialized => ioLog = << <<"getenv", "GITHUB_TOKEN">> >>
    /\ \A v \in observed["ACCESS_TOKEN"] : v = ExpectedToken(startEnv)
    /\ (Initialized /\ prevRun.ran) =>
          /\ Getattr(prevRun.globals, "ACCESS_TOKEN")
                = ExpectedToken(prevRun.env)
          /\ Getattr(globals, "ACCESS_TOKEN") = ExpectedToken(startEnv)

(* C3 witness: the token was read in a process whose environment has changed
   since it started, and that process was itself launched with an
   environment other than the one its predecessor started with. *)
C3_Witness ==
    /\ Initialized
    /\ environ # startEnv
    /\ observed["ACCESS_TOKEN"] # {}
    /\ prevRun.ran
    /\ prevRun.env # startEnv
    /\ Getattr(prevRun.globals, "ACCESS_TOKEN")
          # Getattr(globals, "ACCESS_TOKEN")

(* C5: loading the module never fails, whether GITHUB_TOKEN is set or not: no
   statement of the body raises and no import ends in an exception; a load
   that has begun runs to its end; and when the process started without the
   variable the loaded module holds None as its token and the literal
   default in every other field. *)
C5_LoadAlwaysCompletes ==
    /\ [](/\ loadError.type = "NoneType"
          /\ \A t \in Threads : pc[t] # "failed"
          /\ (Initialized /\ "GITHUB_TOKEN" \notin DOMAIN startEnv) =>
                /\ Getattr(globals, "ACCESS_TOKEN").type = "NoneType"
                /\ Getattr(globals, "REPO")
                      = [type |-> "str", val |-> REPO]
                /\ Getattr(globals, "WORKFLOW_NAME")
                      = [type |-> "str", val |-> WORKFLOW_NAME]
                /\ Getattr(globals, "GITHUB_API_PARAMETER")
                      = [type |-> "dict", val |-> GITHUB_API_PARAMETER]
                /\ Getattr(globals, "OUTPUT_TARGET")
                      = [type |-> "str", val |-> OUTPUT_TARGET])
    /\ (sysModules = "initializing") ~> Initialized

(* C5 witness: the module is loaded in a process started without the
   variable, and a consumer has found the token absent by reading it. *)
C5_Witness ==
    /\ Initialized
    /\ "GITHUB_TOKEN" \notin DOMAIN startEnv
    /\ observed["ACCESS_TOKEN"] = {[type |-> "NoneType", val |-> <<>>]}
    /\ loadError.type = "NoneType"

(* C6: with several threads importing and reading at once, a thread reads
   only once its import has returned, and then the module body has run to
   its end: every field is bound, no read finds a name missing, all reads of
   a field by all threads return the one value the module holds; at most one
   thread runs the module body, and the environment is looked up at most
   once. *)
C6_ConcurrentReadersSeeLoadedModule ==
    /\ \A t \in Threads :
          pc[t] = "imported" => (Initialized /\ Fields \subseteq DOMAIN globals)
    /\ \A f \in Fields : \A v \in observed[f] :
          /\ v.type # "AttributeError"
          /\ v = Getattr(globals, f)
    /\ Cardinality({t \in Threads : pc[t] \in BodyPositions}) <= 1
    /\ Len(ioLog) <= 1

(* C6 witness: a thread that found the module not yet loaded is still
   waiting for the import lock although the load by another thread has
   ended, and that other thread has read every field. *)
C6_Witness ==
    \E t1, t2 \in Threads :
        /\ t1 # t2
        /\ pc[t1] = "imported"
        /\ pc[t2] = "acquire"
        /\ Initialized
        /\ \A f \in Fields : observed[f] # {}

(* C7: once the module is loaded the request parameters hold an entry
   "per_page" whose value is a string of decimal digits that stands for an
   integer from 1 to 100; so do the request parameters consumers have
   read. *)
C7_PageSizeWithinLimit ==
    /\ Initialized => HasValidPageSize(Getattr(globals, "GITHUB_API_PARAMETER"))
    /\ \A v \in observed["GITHUB_API_PARAMETER"] : HasValidPageSize(v)

\* C7 witness: the request parameters of a loaded module have been read.
C7_Witness ==
    /\ Initialized
    /\ observed["GITHUB_API_PARAMETER"] # {}
    /\ \A v \in observed["GITHUB_API_PARAMETER"] :
          ValuesOf(v.val, "per_page") = {<<"1", "0", "0">>}

(* C8: once the module is loaded the repository identifier is a string with
   exactly one "/", a non-empty owner before it and a non-empty name after
   it; so is every repository identifier consumers have read. *)
C8_RepositoryWellFormed ==
    /\ Initialized =>
          /\ Getattr(globals, "REPO").type = "str"
          /\ IsOwnerSlashName(Getattr(globals, "REPO").val)
    /\ \A v \in observed["REPO"] : v.type = "str" /\ IsOwnerSlashName(v.val)

\* C8 witness: the repository identifier of a loaded module has been read.
C8_Witness ==
    /\ Initialized
    /\ observed["REPO"] # {}
    /\ \A v \in observed["REPO"] : CountChar(v.val, "/") = 1

(* C9: whatever the environment, the loaded module holds "dapr/dapr" as
   repository, "dapr-test.yml" as workflow name and "log.txt" as output
   target; and a process agrees with the process before it, which was
   started with another environment, on every field but the access token. *)
C9_LiteralsIndependentOfEnvironment ==
    Initialized =>
        /\ Getattr(globals, "REPO").val
              = <<"d", "a", "p", "r", "/", "d", "a", "p", "r">>
        /\ Getattr(globals, "WORKFLOW_NAME").val
              = <<"d", "a", "p", "r", "-", "t", "e", "s", "t", ".",
                  "y", "m", "l">>
        /\ Getattr(globals, "OUTPUT_TARGET").val
              = <<"l", "o", "g", ".", "t", "x", "t">>
        /\ prevRun.ran =>
              \A f \in LiteralFields :
                  Getattr(prevRun.globals, f) = Getattr(globals, f)

(* C9 witness: two processes, one after the other, loaded the module with
   different values of GITHUB_TOKEN and hold different tokens. *)
C9_Witness ==
    /\ Initialized
    /\ prevRun.ran
    /\ "GITHUB_TOKEN" \in DOMAIN prevRun.env
    /\ "GITHUB_TOKEN" \in DOMAIN startEnv
    /\ prevRun.env # startEnv
    /\ Getattr(prevRun.globals, "ACCESS_TOKEN")
          # Getattr(globals, "ACCESS_TOKEN")

(* C10: a step of the import (the lookup in sys.modules, the lock, a
   statement of the module body, the end of the load) and a read of a field
   leave the process environment and the file system as they are, and the
   only external interaction the module ever makes is one lookup of
   GITHUB_TOKEN. *)
C10_ModuleLeavesWorldUnchanged ==
    /\ [](\/ ioLog = <<>>
          \/ ioLog = << <<"getenv", "GITHUB_TOKEN">> >>)
    /\ [][((pc' # pc \/ observed' # observed) /\ procCount' = procCount)
             => (environ' = environ /\ files' = files)]_vars

(* C10 witness: the module is loaded and all its fields were read, and the
   output log does not exist. *)
C10_Witness ==
    /\ Initialized
    /\ \A f \in Fields : observed[f] # {}
    /\ OUTPUT_TARGET \notin DOMAIN files
    /\ ioLog = << <<"getenv", "GITHUB_TOKEN">> >>

====
